---- MODULE Spec2Model ----
(***************************************************************************)
(* Positional table extraction of the Geotechnical Borelog Digitizer      *)
(* (pdf_table_extractor_gui_04.py; pdf_table_extractor_gui_03.py holds    *)
(* the same assign_row / extract_positional_table).                       *)
(*                                                                         *)
(* Coordinates are integers on a small grid.  A string is a TLA+ string,  *)
(* s \o t is Python's s + t.  A Python dict is a sequence of entries in   *)
(* insertion order (the order dict iteration uses).                       *)
(***************************************************************************)
EXTENDS Integers, Sequences, FiniteSets, TLC

VARIABLES
    pdf,            \* pdf.pages: a sequence of pages, a page is what extract_words() returns
    columns,        \* st.session_state.columns / the columns argument: <<[name, xmin, xmax]>>
    y_tolerance,    \* the y_tolerance argument
    header_cutoff,  \* the header_cutoff argument / number input
    footer_cutoff,  \* the footer_cutoff argument / number input
    current_page,   \* st.session_state.current_page
    mode,           \* who called: "call" (a direct call), "current", "all" (the two buttons)
    pc,             \* position: "idle", "loop", "returned", "raised"
    page_no,        \* the page being extracted (i of the Extract All Pages loop)
    words,          \* local words of extract_positional_table
    w_idx,          \* position of the for-loop over words
    rows,           \* local rows: <<[key, cells: <<[col, text]>>]>>
    row_y,          \* local row_y: <<>> while unset, <<key>> after an assign_row call
    placed,         \* history: for each word the loop has passed, <<row_y, col>> if its
                    \* text was accumulated, <<>> if it was skipped
    sorted_keys,    \* sorted(rows.keys()) of the return statement
    df_page,        \* the DataFrame the last call returned
    all_pages,      \* all_pages of the Extract All Pages handler
    error,          \* "none" or the exception that left the call
    calls,          \* history: the calls of extract_positional_table made so far
    pending_x,      \* st.session_state.pending_x: <<>> while absent, <<x>> once set
    coords,         \* what streamlit_image_coordinates(..., key=f"coords_{page_number}")
                    \* returns: <<>> for None, <<x>> for the last click on the preview
    event           \* history: the widget the user operated last, with what was entered

vars == <<pdf, columns, y_tolerance, header_cutoff, footer_cutoff, current_page, mode,
          pc, page_no, words, w_idx, rows, row_y, placed, sorted_keys, df_page, all_pages, error,
          calls, pending_x, coords, event>>

inputs == <<pdf, columns, y_tolerance, header_cutoff, footer_cutoff>>

\* the state of click-to-define
click_state == <<pending_x, coords, event>>

----------------------------------------------------------------------------
(* Bounds of the model *)

MaxX == 1          \* x0, xmin, xmax range over 0..MaxX
MaxTop == 2        \* top and the cutoffs range over 0..MaxTop
MaxTol == 1        \* y_tolerance ranges over -1..MaxTol
MaxWords == 3      \* words on the page of a direct call
MaxCols == 2       \* columns in the mapping
MaxPages == 2      \* pages of the pdf in a session
MaxPdfWords == 2   \* words of the whole pdf in a session
MaxCalls == 3      \* calls of extract_positional_table in a session

Xs == 0..MaxX
Tops == 0..MaxTop
Tolerances == -1..MaxTol
\* the names a mapping may use: as many as it may hold columns
ColName == <<"A", "B", "C", "D">>
ColNames == {ColName[k] : k \in 1..MaxCols}
Fields == {"x0", "top", "text"}

\* The text of the k-th word of the pdf.  The code never looks into text, it only
\* concatenates it, so distinct texts are the general case.
Tok == <<"a", "b", "c", "d", "e", "f", "g", "h">>

\* Word lists of length n whose texts are Tok[off+1], ..., Tok[off+n].
WordLists(n, off) ==
    {[k \in 1..n |-> [x0 |-> xs[k], top |-> ts[k], text |-> Tok[off + k]]] :
        xs \in [1..n -> Xs], ts \in [1..n -> Tops]}

Pages == UNION {WordLists(n, 0) : n \in 0..MaxWords}

\* pdfs of np pages holding at most budget words, the texts numbered from off + 1
RECURSIVE Pdfs(_, _, _)
Pdfs(np, budget, off) ==
    IF np = 0 THEN {<<>>}
    ELSE UNION {{<<p>> \o rest : p \in WordLists(n, off),
                                 rest \in Pdfs(np - 1, budget - n, off + n)} :
                   n \in 0..budget}

SessionPdfs == UNION {Pdfs(np, MaxPdfWords, 0) : np \in 1..MaxPages}

\* A word record without field f.
Drop(w, f) == [g \in (DOMAIN w) \ {f} |-> w[g]]

\* Word lists in which exactly one record lacks one required field.
MalformedPages ==
    UNION {{[ws EXCEPT ![k] = Drop(ws[k], f)] :
               ws \in WordLists(n, 0), k \in 1..n, f \in Fields} : n \in 1..MaxWords}

\* Ordered mappings name -> (xmin, xmax): the names are distinct (dict keys).
ColumnMappings ==
    UNION {{m \in [1..n -> [name : ColNames, xmin : Xs, xmax : Xs]] :
               \A a, b \in 1..n : a # b => m[a].name # m[b].name} : n \in 0..MaxCols}

----------------------------------------------------------------------------
(* The two functions *)

Abs(n) == IF n < 0 THEN -n ELSE n

\* the minimum of a non-empty set of numbers
Least(S) == CHOOSE m \in S : \A n \in S : m <= n

\* sorted(keys): ascending
RECURSIVE sort_set(_)
sort_set(S) == IF S = {} THEN <<>> ELSE <<Least(S)>> \o sort_set(S \ {Least(S)})

\* a slip: the keys are left in insertion order
sorted_not(keys) == keys

sorted(keys) == sort_set({keys[k] : k \in 1..Len(keys)})

\* for ry in existing_rows: if abs(y - ry) <= tolerance: return ry
RECURSIVE assign_row_from(_, _, _, _)
assign_row_from(k, y, existing_rows, tolerance) ==
    IF k > Len(existing_rows) THEN y
    ELSE IF Abs(y - existing_rows[k]) <= tolerance THEN existing_rows[k]
    ELSE assign_row_from(k + 1, y, existing_rows, tolerance)

\* a slip: the keys are scanned in ascending order, not in creation order
assign_row_ascending(y, existing_rows, tolerance) ==
    assign_row_from(1, y, sorted(existing_rows), tolerance)

\* a slip: abs(y - ry) < tolerance, a key exactly tolerance away does not take the word
assign_row_strict(y, existing_rows, tolerance) ==
    assign_row_from(1, y, existing_rows, tolerance - 1)

\* a slip: a key one unit farther than tolerance still takes the word
assign_row_loose(y, existing_rows, tolerance) ==
    assign_row_from(1, y, existing_rows, tolerance + 1)

assign_row(y, existing_rows, tolerance) == assign_row_from(1, y, existing_rows, tolerance)

\* rows.keys(): the keys in insertion order
Keys(rws) == [k \in 1..Len(rws) |-> rws[k].key]

\* for col, (xmin, xmax) in columns.items(): if xmin <= x <= xmax: ...; break
\* the position of the column taken, 0 when the loop ends without a break
RECURSIVE match_column_from(_, _, _)
match_column_from(k, cols, x) ==
    IF k > Len(cols) THEN 0
    ELSE IF cols[k].xmin <= x /\ x <= cols[k].xmax THEN k
    ELSE match_column_from(k + 1, cols, x)

\* a slip: no break, the last column whose range holds x takes the word
match_column_last(cols, x) ==
    IF \E k \in 1..Len(cols) : cols[k].xmin <= x /\ x <= cols[k].xmax
    THEN CHOOSE k \in 1..Len(cols) :
            /\ cols[k].xmin <= x /\ x <= cols[k].xmax
            /\ \A j \in (k + 1)..Len(cols) : ~(cols[j].xmin <= x /\ x <= cols[j].xmax)
    ELSE 0

match_column(cols, x) == match_column_from(1, cols, x)

\* cells[col] += s on a defaultdict(str)
add_to_cells(cells, col, s) ==
    IF \E k \in 1..Len(cells) : cells[k].col = col
    THEN [k \in 1..Len(cells) |->
            IF cells[k].col = col THEN [cells[k] EXCEPT !.text = @ \o s] ELSE cells[k]]
    ELSE Append(cells, [col |-> col, text |-> "" \o s])

\* rows[row_y][col] += s on a defaultdict of defaultdict(str)
add_to_rows(rws, ry, col, s) ==
    IF \E k \in 1..Len(rws) : rws[k].key = ry
    THEN [k \in 1..Len(rws) |->
            IF rws[k].key = ry
            THEN [rws[k] EXCEPT !.cells = add_to_cells(@, col, s)] ELSE rws[k]]
    ELSE Append(rws, [key |-> ry, cells |-> add_to_cells(<<>>, col, s)])

\* a slip: the separating space is left out
cell_piece_bare(text) == text

\* the text one word adds to its cell
cell_piece(text) == " " \o text

\* w["x0"], w["top"], w["text"] raise KeyError when the key is missing
well_formed(w) == Fields \subseteq DOMAIN w

\* a slip: the header cutoff itself is cut
cut_off_at_header(y, hc, fc) == y <= hc \/ y > fc

\* y < header_cutoff or y > footer_cutoff
cut_off(y, hc, fc) == y < hc \/ y > fc

\* a slip: the row is looked up (and so created, rows being a defaultdict) before a
\* column is found
loop_body_row_first(rws, w, cols, tol, hc, fc) ==
    IF cut_off(w.top, hc, fc) THEN rws
    ELSE LET c == match_column(cols, w.x0)
             ry == assign_row(w.top, Keys(rws), tol)
             made == IF \E k \in 1..Len(rws) : rws[k].key = ry THEN rws
                     ELSE Append(rws, [key |-> ry, cells |-> <<>>])
         IN IF c = 0 THEN made
            ELSE add_to_rows(made, ry, cols[c].name, cell_piece(w.text))

\* a slip: the row is looked up (and so created) before the cutoff test
loop_body_row_before_cutoff(rws, w, cols, tol, hc, fc) ==
    LET c == match_column(cols, w.x0)
        ry == assign_row(w.top, Keys(rws), tol)
        made == IF \E k \in 1..Len(rws) : rws[k].key = ry THEN rws
                ELSE Append(rws, [key |-> ry, cells |-> <<>>])
    IN IF cut_off(w.top, hc, fc) \/ c = 0 THEN made
       ELSE add_to_rows(made, ry, cols[c].name, cell_piece(w.text))

\* one pass of the loop body over a well-formed word w: the rows after it
loop_body(rws, w, cols, tol, hc, fc) ==
    IF cut_off(w.top, hc, fc) THEN rws
    ELSE LET c == match_column(cols, w.x0) IN
         IF c = 0 THEN rws
         ELSE add_to_rows(rws, assign_row(w.top, Keys(rws), tol), cols[c].name,
                          cell_piece(w.text))

\* rows[y]
row_at(rws, y) == (CHOOSE k \in 1..Len(rws) : rws[k].key = y)

\* data = [rows[y] for y in sorted(rows.keys())]
row_data(rws, order) == [k \in 1..Len(order) |-> rws[row_at(rws, order[k])].cells]

\* pd.DataFrame(list of dicts): the columns are the keys of the dicts in order of
\* first appearance, a row has NaN where its dict has no such key
NaN == "NaN"

RECURSIVE append_new(_, _, _)
append_new(seen, cells, k) ==
    IF k > Len(cells) THEN seen
    ELSE append_new(IF \E j \in 1..Len(seen) : seen[j] = cells[k].col
                    THEN seen ELSE Append(seen, cells[k].col), cells, k + 1)

RECURSIVE frame_columns(_, _, _)
frame_columns(seen, data, k) ==
    IF k > Len(data) THEN seen
    ELSE frame_columns(append_new(seen, data[k], 1), data, k + 1)

cell_of(cells, col) ==
    IF \E k \in 1..Len(cells) : cells[k].col = col
    THEN cells[CHOOSE k \in 1..Len(cells) : cells[k].col = col].text
    ELSE NaN

DataFrame(data) ==
    LET cs == frame_columns(<<>>, data, 1) IN
    [columns |-> cs,
     values |-> [k \in 1..Len(data) |->
                    [c \in {cs[j] : j \in 1..Len(cs)} |-> cell_of(data[k], c)]]]

NoFrame == [columns |-> <<>>, values |-> <<>>]

\* df.empty
empty(df) == Len(df.values) = 0 \/ Len(df.columns) = 0

\* df_page["Page"] = i
with_page(df, i) ==
    [columns |-> IF \E j \in 1..Len(df.columns) : df.columns[j] = "Page"
                 THEN df.columns ELSE Append(df.columns, "Page"),
     values |-> [k \in 1..Len(df.values) |->
                    [c \in (DOMAIN df.values[k]) \cup {"Page"} |->
                        IF c = "Page" THEN i ELSE df.values[k][c]]]]

\* a slip: rows lives on between calls (a module-level or default-argument dict)
kept_rows == rows

\* rows = defaultdict(lambda: defaultdict(str))
new_rows == <<>>

\* the whole of extract_positional_table on a list of words, as one function:
\* the loop run over ws[k..] from rows rws, ended by a KeyError or by the end of ws
RECURSIVE run_loop(_, _, _, _, _, _, _)
run_loop(rws, ws, k, cols, tol, hc, fc) ==
    IF k > Len(ws) THEN [error |-> "none", rows |-> rws]
    ELSE IF ~well_formed(ws[k]) THEN [error |-> "KeyError", rows |-> rws]
    ELSE run_loop(loop_body(rws, ws[k], cols, tol, hc, fc), ws, k + 1, cols, tol, hc, fc)

extract_positional_table(ws, cols, tol, hc, fc) ==
    LET end == run_loop(<<>>, ws, 1, cols, tol, hc, fc) IN
    IF end.error # "none" THEN [error |-> end.error, df |-> NoFrame]
    ELSE [error |-> "none", df |-> DataFrame(row_data(end.rows, sorted(Keys(end.rows))))]

----------------------------------------------------------------------------
(* The state machine *)

\* the locals of a script run that has not extracted anything yet
NoResults ==
    /\ sorted_keys' = <<>>
    /\ df_page' = NoFrame
    /\ all_pages' = <<>>

\* control enters extract_positional_table for page p
Enter(p) ==
    /\ page_no' = p
    /\ words' = pdf[p]
    /\ rows' = new_rows
    /\ w_idx' = 1
    /\ row_y' = <<>>
    /\ placed' = <<>>
    /\ error' = "none"
    /\ calls' = calls + 1
    /\ pc' = "loop"

\* a direct call extract_positional_table(page, columns, y_tolerance, header_cutoff, footer_cutoff)
Call ==
    /\ pc = "idle"
    /\ mode = "call"
    /\ Enter(1)
    /\ NoResults
    /\ UNCHANGED <<click_state, inputs, current_page, mode>>

\* one iteration of: for w in words
ProcessWord ==
    /\ pc = "loop"
    /\ w_idx <= Len(words)
    /\ LET w == words[w_idx] IN
       IF ~well_formed(w)
       THEN /\ pc' = "raised"
            /\ error' = "KeyError"
            /\ UNCHANGED <<rows, row_y, placed, w_idx>>
       ELSE /\ rows' = loop_body(rows, w, columns, y_tolerance, header_cutoff, footer_cutoff)
            /\ row_y' = IF cut_off(w.top, header_cutoff, footer_cutoff)
                           \/ match_column(columns, w.x0) = 0
                        THEN row_y
                        ELSE <<assign_row(w.top, Keys(rows), y_tolerance)>>
            /\ placed' = Append(placed,
                                IF cut_off(w.top, header_cutoff, footer_cutoff)
                                   \/ match_column(columns, w.x0) = 0
                                THEN <<>>
                                ELSE <<row_y'[1], columns[match_column(columns, w.x0)].name>>)
            /\ w_idx' = w_idx + 1
            /\ UNCHANGED <<pc, error>>
    /\ UNCHANGED <<click_state, inputs, current_page, mode, page_no, words, sorted_keys,
                   df_page, all_pages, calls>>

\* the loop is over
LoopDone == pc = "loop" /\ w_idx > Len(words)

\* data = [rows[y] for y in sorted(rows.keys())]; return pd.DataFrame(data)
ReturnFrame ==
    /\ sorted_keys' = sorted(Keys(rows))
    /\ df_page' = DataFrame(row_data(rows, sorted_keys'))

\* the return of a direct call
Return ==
    /\ LoopDone
    /\ mode = "call"
    /\ ReturnFrame
    /\ pc' = "returned"
    /\ UNCHANGED <<click_state, inputs, current_page, mode, page_no, words, w_idx, rows, row_y,
                   placed, all_pages, error, calls>>

InitLocals ==
    /\ current_page = 1
    /\ pc = "idle"
    /\ page_no = 1
    /\ words = <<>>
    /\ w_idx = 1
    /\ rows = <<>>
    /\ row_y = <<>>
    /\ placed = <<>>
    /\ sorted_keys = <<>>
    /\ df_page = NoFrame
    /\ all_pages = <<>>
    /\ error = "none"
    /\ calls = 0
    /\ pending_x = <<>>
    /\ coords = <<>>
    /\ event = [kind |-> "none"]

Init ==
    /\ pdf \in {<<p>> : p \in Pages}
    /\ columns \in ColumnMappings
    /\ y_tolerance \in Tolerances
    /\ header_cutoff \in Tops
    /\ footer_cutoff \in Tops
    /\ mode = "call"
    /\ InitLocals

Next == Call \/ ProcessWord \/ Return

Spec == Init /\ [][Next]_vars

\* direct calls on word lists in which a record may lack a field, with at most
\* one column
InitMalformed ==
    /\ pdf \in {<<p>> : p \in Pages \cup MalformedPages}
    /\ columns \in {m \in ColumnMappings : Len(m) <= 1}
    /\ y_tolerance \in Tolerances
    /\ header_cutoff \in Tops
    /\ footer_cutoff \in Tops
    /\ mode = "call"
    /\ InitLocals

SpecMalformed == InitMalformed /\ [][Next]_vars

----------------------------------------------------------------------------
(* The session: the two extraction buttons and the page navigation *)

\* y_tolerance=2, the default the two buttons leave in place
DefaultTolerance == 2

\* the words of a run are well-formed, so the loop ends and the call returns
\* if st.button("Extract Current Page"): df_page = extract_positional_table(pdf.pages[page_number - 1], ...)
ExtractCurrentPage ==
    /\ pc = "idle"
    /\ mode # "call"
    /\ calls < MaxCalls
    /\ mode' = "current"
    /\ Enter(current_page)
    /\ NoResults
    /\ UNCHANGED <<click_state, inputs, current_page>>

\* the call of Extract Current Page returns; the table is shown
ReturnCurrentPage ==
    /\ LoopDone
    /\ mode = "current"
    /\ ReturnFrame
    /\ pc' = "idle"
    /\ UNCHANGED <<click_state, inputs, current_page, mode, page_no, words, w_idx, rows, row_y,
                   placed, all_pages, error, calls>>

\* if st.button("Extract All Pages"): all_pages = []; the loop calls for page 1
ExtractAllPages ==
    /\ pc = "idle"
    /\ mode # "call"
    /\ calls + Len(pdf) <= MaxCalls
    /\ mode' = "all"
    /\ Enter(1)
    /\ NoResults
    /\ UNCHANGED <<click_state, inputs, current_page>>

\* a call of the loop returns: if not df_page.empty: df_page["Page"] = i; all_pages.append(df_page)
ReturnAllPages ==
    /\ LoopDone
    /\ mode = "all"
    /\ ReturnFrame
    /\ all_pages' = IF empty(df_page') THEN all_pages
                    ELSE Append(all_pages, with_page(df_page', page_no))
    /\ pc' = "next"
    /\ UNCHANGED <<click_state, inputs, current_page, mode, page_no, words, w_idx, rows, row_y,
                   placed, error, calls>>

\* for i, pg in enumerate(pdf.pages, start=1): the next page, or the end of the loop
NextOfAllPages ==
    /\ pc = "next"
    /\ IF page_no < Len(pdf)
       THEN Enter(page_no + 1)
       ELSE /\ pc' = "idle"
            /\ UNCHANGED <<page_no, words, w_idx, rows, row_y, placed, error, calls>>
    /\ UNCHANGED <<click_state, inputs, current_page, mode, sorted_keys, df_page, all_pages>>

\* a click that extracts nothing reruns the script: nothing of the last extraction is shown
Rerun ==
    /\ mode' = "ui"
    /\ NoResults
    /\ UNCHANGED <<click_state, inputs, page_no, words, w_idx, rows, row_y, placed, error,
                   calls, pc>>

\* if st.button("Previous"): if current_page > 1: current_page -= 1
PreviousPage ==
    /\ pc = "idle"
    /\ mode # "call"
    /\ current_page' = IF current_page > 1 THEN current_page - 1 ELSE current_page
    /\ Rerun

\* if st.button("Next"): if current_page < num_pages: current_page += 1
NextPage ==
    /\ pc = "idle"
    /\ mode # "call"
    /\ current_page' = IF current_page < Len(pdf) THEN current_page + 1 ELSE current_page
    /\ Rerun

InitSession ==
    /\ pdf \in SessionPdfs
    /\ columns \in {m \in ColumnMappings : \A k \in 1..Len(m) : m[k].xmin <= m[k].xmax}
    /\ y_tolerance = DefaultTolerance
    /\ header_cutoff \in Tops
    /\ footer_cutoff \in Tops
    /\ mode = "ui"
    /\ InitLocals

NextSession ==
    \/ ExtractCurrentPage
    \/ ExtractAllPages
    \/ ProcessWord
    \/ ReturnCurrentPage
    \/ ReturnAllPages
    \/ NextOfAllPages
    \/ PreviousPage
    \/ NextPage

SpecSession == InitSession /\ [][NextSession]_vars

----------------------------------------------------------------------------
(* The column editor and click-to-define: one script run per widget the user *)
(* operates; st.rerun() ends the run and starts the next one                 *)

MaxDefaults == 1   \* default columns the session starts with
MaxUiCols == 2     \* columns the mapping may reach in the editor

\* st.session_state.columns = {"SoilType": (45, 50), "SampleID": (85, 95), ...}
DefaultColumns ==
    <<[name |-> "SoilType", xmin |-> 45, xmax |-> 50],
      [name |-> "SampleID", xmin |-> 85, xmax |-> 95],
      [name |-> "BlowCounts", xmin |-> 150, xmax |-> 190],
      [name |-> "CasingDepth_m", xmin |-> 195, xmax |-> 221],
      [name |-> "RodLength_m", xmin |-> 223, xmax |-> 245],
      [name |-> "EnergyRatio_%", xmin |-> 250, xmax |-> 272],
      [name |-> "PocketPen_kPa", xmin |-> 390, xmax |-> 410],
      [name |-> "Torvane_kPa", xmin |-> 410, xmax |-> 440],
      [name |-> "Moisture_%", xmin |-> 440, xmax |-> 460]>>

\* st.session_state.columns[new_name] = (10, 50)
AddColumnRange == [xmin |-> 10, xmax |-> 50]

\* draw_page_image_with_columns(..., scale=2): preview pixels per PDF unit
scale == 2

\* x of a click on the preview, in pixels: the pixels that fall on the grid
Pixels == {scale * x : x \in Xs}

\* what the user may type into a Name input: blank, or the name of a default column
NameInputs == {"", DefaultColumns[1].name}

\* f"NewColumn{i}"
NewColumn == <<"NewColumn1", "NewColumn2", "NewColumn3", "NewColumn4", "NewColumn5">>

\* name in columns
has_key(cols, name) == \E k \in 1..Len(cols) : cols[k].name = name

\* columns[name] = (xmin, xmax): a present key keeps its place, a new key goes last
set_item(cols, name, xmin, xmax) ==
    IF has_key(cols, name)
    THEN [k \in 1..Len(cols) |->
             IF cols[k].name = name THEN [name |-> name, xmin |-> xmin, xmax |-> xmax]
             ELSE cols[k]]
    ELSE Append(cols, [name |-> name, xmin |-> xmin, xmax |-> xmax])

\* columns.pop(name, None)
pop(cols, name) == SelectSeq(cols, LAMBDA c : c.name # name)

\* i = 1; while f"NewColumn{i}" in columns: i += 1
new_col_name(cols) ==
    NewColumn[Least({i \in 1..Len(NewColumn) : ~has_key(cols, NewColumn[i])})]

\* a slip: the two inputs are stored as they were entered
guard_rails_as_entered(old, w) ==
    [name |-> IF w.name = "" THEN old.name ELSE w.name, xmin |-> w.xmin, xmax |-> w.xmax]

\* the guard rails of one line of the editor: a blank name keeps the old one,
\* if new_xmin > new_xmax: new_xmin, new_xmax = new_xmax, new_xmin
guard_rails(old, w) ==
    [name |-> IF w.name = "" THEN old.name ELSE w.name,
     xmin |-> IF w.xmin > w.xmax THEN w.xmax ELSE w.xmin,
     xmax |-> IF w.xmin > w.xmax THEN w.xmin ELSE w.xmax]

\* what the three inputs of line k return: the stored column, with the user's
\* entry in the input the user has just changed
widget(cols, k, t) ==
    IF t.kind \in {"name", "xmin", "xmax"} /\ t.idx = k
    THEN [cols[k] EXCEPT ![t.kind] = t.value]
    ELSE cols[k]

\* for idx, (col_name, (xmin, xmax)) in enumerate(items): ...
\*     updated_columns[new_name] = (new_xmin, new_xmax)
RECURSIVE updated_columns(_, _, _)
updated_columns(items, t, k) ==
    IF k = 0 THEN <<>>
    ELSE LET g == guard_rails(items[k], widget(items, k, t))
         IN set_item(updated_columns(items, t, k - 1), g.name, g.xmin, g.xmax)

\* xmin_px, xmax_px = sorted([pending_x, x]); xmin_pdf, xmax_pdf = xmin_px / 2.0, xmax_px / 2.0
\* columns[new_col_name] = (xmin_pdf, xmax_pdf)
add_clicked_column(cols, p, x) ==
    LET px == sorted(<<p, x>>)
    IN set_item(cols, new_col_name(cols), px[1] \div scale, px[Len(px)] \div scale)

NoEvent == [kind |-> "none"]

\* One run of the script on the session state (cols, pend, crd) after the user
\* operated widget t, followed by the runs that st.rerun() starts.  A keyed
\* component keeps its value: in a run started by anything but a click,
\* streamlit_image_coordinates returns the last click again.  The result tells
\* whether the run reached the extraction section with its button pressed.
RECURSIVE script(_, _, _, _)
script(cols, pend, crd, t) ==
    IF t.kind = "add"
    THEN script(set_item(cols, new_col_name(cols), AddColumnRange.xmin, AddColumnRange.xmax),
                pend, crd, NoEvent)
    ELSE IF t.kind = "delete"
    THEN script(pop(cols, cols[t.idx].name), pend, crd, NoEvent)
    ELSE LET saved == updated_columns(cols, t, Len(cols))
             c == IF t.kind = "click" THEN <<t.x>> ELSE crd
         IN IF c = <<>>
            THEN [columns |-> saved, pending_x |-> pend, coords |-> c,
                  extract |-> t.kind = "extract"]
            ELSE IF pend = <<>>
            THEN [columns |-> saved, pending_x |-> c, coords |-> c,
                  extract |-> t.kind = "extract"]
            ELSE script(add_clicked_column(saved, pend[1], c[1]), <<>>, c, NoEvent)

\* the user operates widget t; the mapping stays within MaxUiCols columns
Operate(t) ==
    /\ pc = "idle"
    /\ mode # "call"
    /\ LET r == script(columns, pending_x, coords, t)
       IN /\ Len(r.columns) <= MaxUiCols
          /\ columns' = r.columns
          /\ pending_x' = r.pending_x
          /\ coords' = r.coords
          /\ event' = t
          /\ IF r.extract
             THEN /\ calls < MaxCalls
                  /\ mode' = "current"
                  /\ Enter(current_page)
             ELSE /\ mode' = "ui"
                  /\ UNCHANGED <<page_no, words, w_idx, rows, row_y, placed, error, calls, pc>>
    /\ NoResults
    /\ UNCHANGED <<pdf, y_tolerance, header_cutoff, footer_cutoff, current_page>>

\* add_col = st.form_submit_button("Add Column")
AddColumn == Operate([kind |-> "add"])

\* c_del.button(key=f"del_{idx}")
DeleteColumn == \E idx \in 1..Len(columns) : Operate([kind |-> "delete", idx |-> idx])

\* c_name.text_input("Name", value=col_name, key=f"name_{idx}")
EditName ==
    \E idx \in 1..Len(columns), n \in NameInputs :
        Operate([kind |-> "name", idx |-> idx, value |-> n])

\* c_xmin.number_input("Xmin", value=float(xmin), key=f"xmin_{idx}")
EditXmin ==
    \E idx \in 1..Len(columns), v \in Xs :
        Operate([kind |-> "xmin", idx |-> idx, value |-> v])

\* c_xmax.number_input("Xmax", value=float(xmax), key=f"xmax_{idx}")
EditXmax ==
    \E idx \in 1..Len(columns), v \in Xs :
        Operate([kind |-> "xmax", idx |-> idx, value |-> v])

\* a click on the preview: coords = streamlit_image_coordinates(page_img, ...)
ClickImage == \E x \in Pixels : Operate([kind |-> "click", x |-> x])

\* st.button("Extract Current Page") in a session that edits its columns
ExtractEdited == Operate([kind |-> "extract"])

\* a session on a one-page pdf holding one word, with the first default columns
InitColumns ==
    /\ pdf = <<<<[x0 |-> 0, top |-> 0, text |-> Tok[1]]>>>>
    /\ columns = SubSeq(DefaultColumns, 1, MaxDefaults)
    /\ y_tolerance = DefaultTolerance
    /\ header_cutoff = 0
    /\ footer_cutoff = MaxTop
    /\ mode = "ui"
    /\ InitLocals

NextColumns ==
    \/ AddColumn
    \/ DeleteColumn
    \/ EditName
    \/ EditXmin
    \/ EditXmax
    \/ ClickImage
    \/ ExtractEdited
    \/ ProcessWord
    \/ ReturnCurrentPage

SpecColumns == InitColumns /\ [][NextColumns]_vars

----------------------------------------------------------------------------
(* Notions the properties are stated with *)

\* rows[key][col] read without creating it: "" when the row or the cell is absent
Text(rws, key, col) ==
    IF \E k \in 1..Len(rws) : rws[k].key = key
    THEN LET cells == rws[row_at(rws, key)].cells IN
         IF \E j \in 1..Len(cells) : cells[j].col = col
         THEN cells[CHOOSE j \in 1..Len(cells) : cells[j].col = col].text
         ELSE ""
    ELSE ""

KeySet(rws) == {rws[k].key : k \in 1..Len(rws)}

\* x lies in the range of column c, both ends included
InRange(c, x) == c.xmin <= x /\ x <= c.xmax

\* the word passes the cutoffs
Passes(w) == header_cutoff <= w.top /\ w.top <= footer_cutoff

\* the columns (positions in the mapping) whose range holds x
Holding(x) == {k \in 1..Len(columns) : InRange(columns[k], x)}

\* the loop is about to run its body over a word with all its fields
AtWord == pc = "loop" /\ w_idx <= Len(words) /\ well_formed(words[w_idx])

\* rws2 is rws with s appended to the cell (key, col) and nothing else changed
OnlyCellGrew(rws, rws2, key, col, s) ==
    /\ KeySet(rws2) = KeySet(rws) \cup {key}
    /\ \A y \in KeySet(rws2), n \in ColNames :
          Text(rws2, y, n) = IF y = key /\ n = col THEN Text(rws, y, n) \o s
                             ELSE Text(rws, y, n)

\* the call returned a table
Returned == pc = "returned"

----------------------------------------------------------------------------
(* C1: a word adds text or creates a row only if header_cutoff <= top <=     *)
(* footer_cutoff: a word above the header cutoff or below the footer cutoff  *)
(* leaves rows as they are even when its x0 lies in a column range, and a    *)
(* word inside the cutoffs (the cutoffs themselves included) whose x0 lies   *)
(* in a column range adds to rows.                                           *)
C1_CutoffsInclusive ==
    [][AtWord =>
         LET w == words[w_idx] IN
         /\ (w.top < header_cutoff \/ w.top > footer_cutoff) => rows' = rows
         /\ (Passes(w) /\ Holding(w.x0) # {}) => rows' # rows]_vars

\* a returned call whose page held a word over the header cutoff, one under the
\* footer cutoff, both inside a column range, and a word at a cutoff that was kept
C1_Witness ==
    /\ Returned
    /\ \E a, b, c \in 1..Len(words) :
          /\ words[a].top < header_cutoff /\ Holding(words[a].x0) # {} /\ placed[a] = <<>>
          /\ words[b].top > footer_cutoff /\ Holding(words[b].x0) # {} /\ placed[b] = <<>>
          /\ words[c].top = header_cutoff /\ words[c].top = footer_cutoff
          /\ placed[c] # <<>>

(* C2: a word that passes the cutoffs adds its text to exactly one cell, in   *)
(* the first column of the mapping (in mapping order) whose range holds its   *)
(* x0, both ends included; no other cell changes; a word whose x0 is in no    *)
(* range changes nothing.                                                     *)
C2_FirstColumnTakes ==
    [][(AtWord /\ Passes(words[w_idx])) =>
         LET w == words[w_idx] IN
         IF Holding(w.x0) = {} THEN rows' = rows
         ELSE \E key \in Tops :
                 OnlyCellGrew(rows, rows', key, columns[Least(Holding(w.x0))].name,
                              " " \o w.text)]_vars

\* a returned call in which a word lay in two overlapping ranges and went to the
\* earlier column, a word sat on an xmin = xmax boundary, and a word lay in no range
C2_Witness ==
    /\ Returned
    /\ Len(columns) = 2
    /\ \E a, b \in 1..Len(words) :
          /\ Holding(words[a].x0) = {1, 2}
          /\ placed[a] # <<>> /\ placed[a][2] = columns[1].name
          /\ Passes(words[b]) /\ Holding(words[b].x0) = {} /\ placed[b] = <<>>
    /\ \E k \in 1..2 : columns[k].xmin = columns[k].xmax

(* C3: assign_row returns the first key, in the order the keys were created   *)
(* in this pass, that lies within tolerance of y, and y itself when there is  *)
(* none; several keys within tolerance: the first created, not the smallest   *)
(* or the nearest.  The word's text goes to the row of that key.              *)
C3_FirstCreatedKey ==
    [][(AtWord /\ Passes(words[w_idx]) /\ Holding(words[w_idx].x0) # {}) =>
         LET w == words[w_idx]
             ks == Keys(rows)
             near == {j \in 1..Len(ks) : Abs(w.top - ks[j]) <= y_tolerance}
             ry == IF near = {} THEN w.top ELSE ks[Least(near)]
         IN /\ row_y' = <<ry>>
            /\ Text(rows', ry, columns[Least(Holding(w.x0))].name) #
                   Text(rows, ry, columns[Least(Holding(w.x0))].name)
            /\ Keys(rows') = IF near = {} /\ ry \notin KeySet(rows) THEN Append(ks, ry) ELSE ks]_vars

\* keys 2 and 0 were created in that order, both within tolerance 1 of the third
\* word's top 1, and the word went to row 2
C3_Witness ==
    /\ Returned
    /\ y_tolerance = 1
    /\ Keys(rows) = <<2, 0>>
    /\ Len(words) = 3
    /\ words[3].top = 1
    /\ placed[3] # <<>> /\ placed[3][1] = 2

(* C4: the rows of the returned table are in strictly ascending order of row  *)
(* key, one row per distinct key, whatever the order of key creation: the     *)
(* r-th row of the table is the bucket of the r-th smallest key.              *)
RankOf(y, S) == Cardinality({z \in S : z < y}) + 1

C4_RowsAscending ==
    Returned =>
        /\ Len(df_page.values) = Cardinality(KeySet(rows))
        /\ Len(rows) = Cardinality(KeySet(rows))
        /\ \A y \in KeySet(rows) : \A n \in DOMAIN df_page.values[RankOf(y, KeySet(rows))] :
              df_page.values[RankOf(y, KeySet(rows))][n] =
                  IF Text(rows, y, n) = "" THEN NaN ELSE Text(rows, y, n)
        /\ \A j \in 1..(Len(sorted_keys) - 1) : sorted_keys[j] < sorted_keys[j + 1]

\* a returned table of two rows whose keys were created in descending order
C4_Witness ==
    /\ Returned
    /\ Len(rows) >= 2
    /\ rows[1].key > rows[2].key
    /\ Len(df_page.values) = Len(rows)

(* C5: a populated cell of the table holds the texts of the words assigned to *)
(* its row and column, in the order the words were supplied, each preceded by *)
(* one space; words assigned elsewhere are not in it.                         *)
RECURSIVE Joined(_, _, _, _)
Joined(ws, pl, cell, k) ==
    IF k > Len(pl) THEN ""
    ELSE (IF pl[k] = cell THEN " " \o ws[k].text ELSE "") \o Joined(ws, pl, cell, k + 1)

C5_CellConcatenation ==
    Returned =>
      /\ \A k \in 1..Len(placed) : placed[k] # <<>> =>
            /\ placed[k][1] \in KeySet(rows)
            /\ placed[k][2] \in DOMAIN df_page.values[RankOf(placed[k][1], KeySet(rows))]
      /\ \A y \in KeySet(rows) : \A n \in DOMAIN df_page.values[RankOf(y, KeySet(rows))] :
            LET v == df_page.values[RankOf(y, KeySet(rows))][n] IN
            IF \E k \in 1..Len(placed) : placed[k] = <<y, n>>
            THEN v = Joined(words, placed, <<y, n>>, 1)
            ELSE v = NaN

\* a returned table with a cell of two words and another populated cell
C5_Witness ==
    /\ Returned
    /\ \E a, b, c \in 1..Len(placed) :
          /\ a < b
          /\ placed[a] # <<>> /\ placed[a] = placed[b]
          /\ placed[c] # <<>> /\ placed[c] # placed[a]

(* C6: the columns of the returned table appear in the order of the columns  *)
(* mapping, whatever the order of the words.                                  *)
PositionOf(n) == CHOOSE k \in 1..Len(columns) : columns[k].name = n

C6_ColumnsInMappingOrder ==
    Returned =>
        \A a, b \in 1..Len(df_page.columns) :
            a < b => PositionOf(df_page.columns[a]) < PositionOf(df_page.columns[b])

(* C7: a call with a negative tolerance is rejected: assign_row returns no    *)
(* row key and extract_positional_table returns no table.                     *)
C7_NegativeToleranceRejected ==
    y_tolerance < 0 => (row_y = <<>> /\ ~Returned)

(* C8: when one word record lacks a required field the call does not fail and *)
(* returns the table of the same word list without that record.               *)
Malformed(ws) == {k \in 1..Len(ws) : ~well_formed(ws[k])}

Without(ws, k) == SubSeq(ws, 1, k - 1) \o SubSeq(ws, k + 1, Len(ws))

C8_MalformedWordSkipped ==
    (pc \in {"returned", "raised"} /\ Cardinality(Malformed(words)) = 1) =>
        /\ Returned
        /\ error = "none"
        /\ df_page = extract_positional_table(
                         Without(words, CHOOSE k \in Malformed(words) : TRUE),
                         columns, y_tolerance, header_cutoff, footer_cutoff).df

(* C9: when no word both passes the cutoffs and lies in a column range, the   *)
(* call returns a table of zero rows and raises nothing.                      *)
NothingMatches == \A k \in 1..Len(words) : ~(Passes(words[k]) /\ Holding(words[k].x0) # {})

C9_NothingMatchesEmptyTable ==
    (pc \in {"returned", "raised"} /\ NothingMatches) =>
        /\ Returned
        /\ error = "none"
        /\ Len(df_page.values) = 0
        /\ empty(df_page)

\* a returned call over words that lie in column ranges, all cut because
\* header_cutoff > footer_cutoff
C9_Witness ==
    /\ Returned
    /\ header_cutoff > footer_cutoff
    /\ Len(words) = MaxWords
    /\ \A k \in 1..Len(words) : Holding(words[k].x0) # {}
    /\ Len(df_page.values) = 0

(* C10: extraction keeps no state between calls: in a session, whatever calls *)
(* came before, the table a call returns for a page is the table of a single  *)
(* isolated call on that page's words with the same columns, tolerance and    *)
(* cutoffs, and the tables Extract All Pages collects are those of its pages. *)
Isolated(p) ==
    extract_positional_table(pdf[p], columns, y_tolerance, header_cutoff, footer_cutoff).df

RECURSIVE Collected(_)
Collected(n) ==
    IF n = 0 THEN <<>>
    ELSE IF empty(Isolated(n)) THEN Collected(n - 1)
    ELSE Append(Collected(n - 1), with_page(Isolated(n), n))

C10_NoStateBetweenCalls ==
    /\ (mode = "current" /\ pc = "idle") => df_page = Isolated(page_no)
    /\ (mode = "all" /\ pc = "next") => df_page = Isolated(page_no)
    /\ (mode = "all" /\ pc \in {"next", "idle"}) => all_pages = Collected(page_no)
    /\ (mode = "all" /\ pc = "loop") => all_pages = Collected(page_no - 1)

\* Extract All Pages has ended over two pages that both gave a table, after an
\* earlier Extract Current Page call in the same session
C10_Witness ==
    /\ mode = "all"
    /\ pc = "idle"
    /\ calls = 3
    /\ Len(pdf) = 2
    /\ Len(all_pages) = 2

----------------------------------------------------------------------------
(* The column editor *)

\* the step is a script run started by the user operating a widget
UserStep == pc = "idle" /\ mode # "call" /\ vars' # vars

\* every column of the mapping has xmin <= xmax
Ordered(cols) == \A k \in 1..Len(cols) : cols[k].xmin <= cols[k].xmax

\* an Xmin entered above the stored Xmax, or an Xmax entered below the stored
\* Xmin, is stored on the same line with the two values exchanged
StoredSwapped ==
    UserStep =>
        /\ (event'.kind = "xmin" /\ event'.value > columns[event'.idx].xmax) =>
               columns'[event'.idx] = [name |-> columns[event'.idx].name,
                                       xmin |-> columns[event'.idx].xmax,
                                       xmax |-> event'.value]
        /\ (event'.kind = "xmax" /\ event'.value < columns[event'.idx].xmin) =>
               columns'[event'.idx] = [name |-> columns[event'.idx].name,
                                       xmin |-> event'.value,
                                       xmax |-> columns[event'.idx].xmin]

\* C11: after any sequence of Add Column, edits of Name, Xmin and Xmax, deletes
\* and clicks on the preview, every column of the session's mapping, and so
\* every column passed to extract_positional_table, has xmin <= xmax; an edit
\* that enters xmin > xmax is stored with the two values exchanged.
C11_ColumnsOrdered == [](Ordered(columns)) /\ [][StoredSwapped]_vars

\* an Xmin of 1 was entered on the first line while its Xmax was 0: the run
\* stored (0, 1) on that line
C11_Witness ==
    /\ event = [kind |-> "xmin", idx |-> 1, value |-> 1]
    /\ columns[1].xmin = 0
    /\ columns[1].xmax = 1

----------------------------------------------------------------------------
(* Click-to-define *)

\* the names of the mapping
Names(cols) == {cols[k].name : k \in 1..Len(cols)}

\* the run was started by a click on the preview
Clicked == UserStep /\ event'.kind = "click"

\* cols2 is cols with exactly one column more, placed last, named NewColumn<i>
\* with a name cols does not use, ranging over the two clicks p and x
OneColumnAdded(cols, cols2, p, x) ==
    /\ Len(cols2) = Len(cols) + 1
    /\ SubSeq(cols2, 1, Len(cols)) = cols
    /\ \E i \in 1..Len(NewColumn) : cols2[Len(cols2)].name = NewColumn[i]
    /\ cols2[Len(cols2)].name \notin Names(cols)
    /\ cols2[Len(cols2)].xmin = (IF p <= x THEN p ELSE x) \div scale
    /\ cols2[Len(cols2)].xmax = (IF p <= x THEN x ELSE p) \div scale

\* C12: click-to-define is a two-step protocol.  A click while no boundary is
\* pending only records the boundary and leaves the mapping as it is; a click
\* while a boundary is pending adds exactly one column NewColumn<i>, i unused,
\* ranging over the two clicked positions divided by 2, clears the pending
\* boundary and leaves the other columns as they are; and a column enters the
\* mapping (a name the mapping did not hold, other than by a rename) only by
\* such a second click or by the Add Column button.
C12_TwoClickProtocol ==
    [][/\ (Clicked /\ pending_x = <<>>) =>
              (columns' = columns /\ pending_x' = <<event'.x>>)
       /\ (Clicked /\ pending_x # <<>>) =>
              (OneColumnAdded(columns, columns', pending_x[1], event'.x) /\ pending_x' = <<>>)
       /\ (UserStep /\ \E n \in Names(columns') \ Names(columns) :
                            event'.kind = "name" => n # event'.value) =>
              (event'.kind = "add" \/ (event'.kind = "click" /\ pending_x # <<>>))
      ]_vars

----------------------------------------------------------------------------
(* Row buckets *)

\* the words the loop has passed whose text was accumulated
Contributing == {k \in 1..Len(placed) : placed[k] # <<>>}

\* the contributing words accumulated in the row of key ry
Members(ry) == {k \in Contributing : placed[k][1] = ry}

\* C13: with y_tolerance >= 0, at every point of a pass, every word whose text
\* was accumulated lies in a row whose key ry has |top - ry| <= y_tolerance,
\* and the key of a row is the top of the first supplied word placed in it: a
\* word is compared with the keys only, never with the other words of a row.
C13_MembersNearKey ==
    y_tolerance >= 0 =>
        /\ \A k \in Contributing : Abs(words[k].top - placed[k][1]) <= y_tolerance
        /\ \A ry \in KeySet(rows) :
              Members(ry) # {} /\ words[Least(Members(ry))].top = ry

\* tops 0, 1, 2 with tolerance 1 gave exactly the rows {0, 1} and {2}: the third
\* word is within tolerance of the second word but not of its key 0
C13_Witness ==
    /\ Returned
    /\ y_tolerance = 1
    /\ Len(words) = 3
    /\ \A k \in 1..3 : words[k].top = k - 1
    /\ Keys(rows) = <<0, 2>>
    /\ Members(0) = {1, 2}
    /\ Members(2) = {3}

\* rows[ry] holds an entry for column n
HasCell(rws, ry, n) ==
    \E k \in 1..Len(rws) : rws[k].key = ry /\ \E j \in 1..Len(rws[k].cells) : rws[k].cells[j].col = n

\* the words of the page that pass the cutoffs and lie in a column range
Kept(ws) == SelectSeq(ws, LAMBDA w : Passes(w) /\ Holding(w.x0) # {})

\* the row of the returned table made from the bucket of key ry
TableRow(ry) == df_page.values[RankOf(ry, KeySet(rows))]

\* buckets and cells exist exactly where a word was accumulated
CellsFromWords ==
    /\ KeySet(rows) = {placed[k][1] : k \in Contributing}
    /\ \A ry \in KeySet(rows), n \in Names(columns) :
          HasCell(rows, ry, n) <=> \E k \in Contributing : placed[k] = <<ry, n>>
    /\ Returned =>
          /\ Len(df_page.values) = Cardinality(KeySet(rows))
          /\ \A ry \in KeySet(rows) :
                /\ DOMAIN TableRow(ry) \subseteq Names(columns)
                /\ \A n \in Names(columns) :
                      (n \in DOMAIN TableRow(ry) /\ TableRow(ry)[n] # NaN) <=>
                          \E k \in Contributing : placed[k] = <<ry, n>>
                /\ \E n \in DOMAIN TableRow(ry) : TableRow(ry)[n] # NaN
          /\ df_page = extract_positional_table(Kept(words), columns, y_tolerance,
                                                header_cutoff, footer_cutoff).df

\* a word that is cut off or lies in no column range leaves rows, its keys
\* included, as they are
SkippedLeavesRows ==
    (AtWord /\ (~Passes(words[w_idx]) \/ Holding(words[w_idx].x0) = {})) =>
        (rows' = rows /\ Keys(rows') = Keys(rows))

\* C14: a row of the output holds a value for column c (a cell of the bucket,
\* a value other than NaN in the table) if and only if at least one word was
\* assigned to that row and to column c, so every row of the table has a
\* populated column; a word that is cut off or matches no column creates no
\* row key, and the table is the one the pass gives without such words.
C14_CellsOnlyFromWords == [](CellsFromWords) /\ [][SkippedLeavesRows]_vars

\* a returned table of two rows with a cell left unpopulated, from a page whose
\* first word was skipped
C14_Witness ==
    /\ Returned
    /\ Len(words) = 3
    /\ placed[1] = <<>>
    /\ Len(df_page.values) = 2
    /\ \E r \in 1..2 : \E n \in DOMAIN df_page.values[r] : df_page.values[r][n] = NaN

\* any two distinct keys of rws are farther apart than tol
Apart(rws, tol) == \A a, b \in KeySet(rws) : a # b => Abs(a - b) > tol

\* a step of the loop that creates a key creates the top of its word, and that
\* top is farther than y_tolerance from every key there was
KeyOnlyWhenFar ==
    (AtWord /\ y_tolerance >= 0 /\ Keys(rows') # Keys(rows)) =>
        /\ Keys(rows') = Append(Keys(rows), words[w_idx].top)
        /\ \A ry \in KeySet(rows) : Abs(words[w_idx].top - ry) > y_tolerance

\* C15: at every point of a pass with y_tolerance >= 0, any two distinct row
\* keys differ by more than y_tolerance, a key is created only for a word whose
\* top is farther than y_tolerance from every existing key, and there are never
\* more rows than words that have contributed.
C15_KeysApart ==
    /\ [](y_tolerance >= 0 =>
             /\ Apart(rows, y_tolerance)
             /\ Len(rows) = Cardinality(KeySet(rows))
             /\ Len(rows) <= Cardinality(Contributing))
    /\ [][KeyOnlyWhenFar]_vars

\* in the middle of a pass with tolerance 1: two words have created the keys 2
\* and 0, one more than the tolerance apart
C15_Witness ==
    /\ pc = "loop"
    /\ y_tolerance = 1
    /\ w_idx = 3
    /\ Len(words) = 3
    /\ Contributing = {1, 2}
    /\ Keys(rows) = <<2, 0>>
====
